---- MODULE Spec2Model ----
(***************************************************************************)
(* Model of aa.py: the report collector.  One run of the script is the     *)
(* straight-line pass of lines 22-43; the program counter pc names the     *)
(* source line about to execute.  The environment is the filesystem under  *)
(* project_root (fs), the report file on disk (report) and the console.    *)
(***************************************************************************)
EXTENDS Integers, Sequences, FiniteSets, TLC

(* ---------------------------- bounds ----------------------------------- *)

\* how many entries of the list of aa.py:8-20 a run iterates over
NumFiles == 3

\* how many times the script is run in succession
MaxRuns == 2

(* ------------------------- configuration ------------------------------- *)

AllFiles ==
    << ".env", "package.json", "server.js", "controllers/auth.js",
       "controllers/cards.js", "controllers/payments.js",
       "controllers/subscriptions.js", "controllers/users.js",
       "lib/prismaClient.js", "middleware/requireAuth.js",
       "prisma/schema.prisma" >>

files_to_collect == SubSeq(AllFiles, 1, NumFiles)

Paths == 1..Len(files_to_collect)

output_file == "C:\\Users\\hanos\\cb\\backend\\stripe_migration_report.txt"

(* --------------------------- text pieces ------------------------------- *)

NL == "\n"

TitleText == << "=== Stripe Migration Report ===", NL, NL >>

HeaderLine(rel) == "--- " \o rel \o " ---"

FoundHeader(rel) == << NL, HeaderLine(rel), NL, NL >>

\* (variant: a path that is not found gets no header line)
MissingHeader_NoHeader(rel) == << NL >>

MissingHeader(rel) == << NL, HeaderLine(rel), NL >>

NotFoundText == << "[FILE NOT FOUND]", NL, NL >>

ErrorLine(desc) == "[ERROR READING FILE]: " \o desc

ErrorText(desc) == << ErrorLine(desc), NL >>

Separator == << NL >>

StartBanner == "Starting file collection..."

AddedLine(rel) == "Added: " \o rel

SkippedLine(rel) == "Skipped (not found): " \o rel

CompleteBanner == "File collection complete!"

SavedLine == "   All contents saved to: " \o output_file

(* --------------------------- filesystem -------------------------------- *)

\* what a listed path can be on disk:
\*   missing     os.path.exists is False
\*   denied      exists, open() raises (a directory, no permission)
\*   undecodable exists, opens, read() raises UnicodeDecodeError
\*   text        exists, opens, reads, and its content is written
\*   unwritable  exists, opens, reads, and outfile.write(content) raises
FileKinds == { "missing", "denied", "undecodable", "text", "unwritable" }

\* the bytes of the i-th listed file (an abstract byte per token; the path
\* itself stands for the part of the content that is particular to the file)
RawBytes(i, kind) ==
    IF kind = "undecodable"
    THEN << files_to_collect[i], "0xFF" >>
    ELSE << files_to_collect[i], "\r", NL, "x", "\r", "y", NL >>

Utf8Valid(raw) == \A k \in 1..Len(raw) : raw[k] # "0xFF"

\* text-mode read with newline=None: "\r\n" and a lone "\r" become "\n"
RECURSIVE Decode(_)
Decode(raw) ==
    IF raw = << >> THEN << >>
    ELSE IF Head(raw) = "\r"
         THEN IF Len(raw) >= 2 /\ raw[2] = NL
              THEN << NL >> \o Decode(SubSeq(raw, 3, Len(raw)))
              ELSE << NL >> \o Decode(Tail(raw))
         ELSE << Head(raw) >> \o Decode(Tail(raw))

\* str(e) of the exception the except clause binds
Describe(kind) ==
    CASE kind = "missing"     -> "[Errno 2] No such file or directory"
      [] kind = "denied"      -> "[Errno 13] Permission denied"
      [] kind = "undecodable" -> "'utf-8' codec can't decode byte 0xff"
      [] kind = "unwritable"  -> "[Errno 28] No space left on device"
      [] OTHER                -> ""

(* ----------------------------- state ----------------------------------- *)

VARIABLES
    pc,            \* source line about to run, or "done" / "aborted"
    idx,           \* position of relative_path in files_to_collect (0: none yet)
    fs,            \* kind of each listed path on disk
    report,        \* the text of output_file on disk
    stamp,         \* for each piece of report, the run that wrote it
    console,       \* lines printed by the current run
    outfile,       \* "unbound" | "open" | "closed"
    infile,        \* listed paths whose input handle is open
    content,       \* the local variable content
    e,             \* the exception text bound by the except clause
    exc,           \* what aborted the run: "" | "open" | "write" | "print" | "close"
    excAt,         \* the line the uncaught exception was raised at
    runs,          \* the number of the current run
    outOpens,      \* times this run opened output_file
    existsChecks,  \* per path, os.path.exists calls of this run
    openAttempts,  \* per path, open() calls of this run
    readAttempts,  \* per path, read() calls of this run
    prevDone,      \* report left by the previous run if it completed and
                   \* the filesystem has not changed since
    fsChanged      \* the filesystem changed after the current run ended

vars == << pc, idx, fs, report, stamp, console, outfile, infile, content, e,
           exc, excAt, runs, outOpens, existsChecks, openAttempts,
           readAttempts, prevDone, fsChanged >>

env == << fs, runs, prevDone, fsChanged >>

counters == << outOpens, existsChecks, openAttempts, readAttempts >>

locals == << content, e >>

Zero == [ i \in Paths |-> 0 ]

Bump(f, i) == [ f EXCEPT ![i] = @ + 1 ]

Init ==
    /\ pc = "L22"
    /\ idx = 0
    /\ fs \in [ Paths -> FileKinds ]
    /\ report \in { << >>, << "stale" >> }
    /\ stamp = [ k \in 1..Len(report) |-> 0 ]
    /\ console = << >>
    /\ outfile = "unbound"
    /\ infile = {}
    /\ content = << >>
    /\ e = ""
    /\ exc = ""
    /\ excAt = ""
    /\ runs = 1
    /\ outOpens = 0
    /\ existsChecks = Zero
    /\ openAttempts = Zero
    /\ readAttempts = Zero
    /\ prevDone = << >>
    /\ fsChanged = FALSE

(* ---------------------------- helpers ---------------------------------- *)

\* (variant: the file is opened for appending)
Truncated_Append(old) == old

\* open(output_file, "w"): what is left of the file that was on disk
Truncated(old) == << >>

\* outfile.write(text): the text goes to the end of the file
Written(old, text) == old \o text

Write(text) ==
    /\ report' = Written(report, text)
    /\ stamp' = Written(stamp, [ k \in 1..Len(text) |-> runs ])

\* print(line)
Say(line) == console' = Append(console, line)

\* (variant: the handle is never released)
Released_Never(h) == h

\* leaving "with open(output_file, ...) as outfile" releases the handle
Released(h) == IF h = "open" THEN "closed" ELSE h

\* (variant: the input handle is left open)
Closed_Leak(handles, i) == handles

\* leaving "with open(full_path, ...) as infile" releases the handle
Closed(handles, i) == handles \ { i }

\* the for statement takes the entry after the current one
Following(i) == i + 1

\* (variant: every path is taken to exist)
Exists_Always(kind) == TRUE

\* os.path.exists(full_path)
Exists(kind) == kind # "missing"

\* an exception no handler catches: it unwinds the with-block of line 23
\* (when entered) and ends the process
Raise(kind) ==
    /\ pc' = "aborted"
    /\ exc' = kind
    /\ excAt' = pc
    /\ outfile' = Released(outfile)

rel == files_to_collect[idx]

(* ------------------------- the pass, line by line ---------------------- *)

\* line 22
SayStart ==
    /\ pc = "L22"
    /\ Say(StartBanner)
    /\ pc' = "L23"
    /\ UNCHANGED << idx, report, stamp, outfile, infile, exc, excAt >>
    /\ UNCHANGED << env, counters, locals >>

\* line 23, the open succeeds
OpenOutput ==
    /\ pc = "L23"
    /\ outfile' = "open"
    /\ outOpens' = outOpens + 1
    /\ report' = Truncated(report)
    /\ stamp' = Truncated(stamp)
    /\ pc' = "L24"
    /\ UNCHANGED << idx, console, infile, exc, excAt, existsChecks,
                    openAttempts, readAttempts >>
    /\ UNCHANGED << env, locals >>

\* line 23, the open raises: nothing catches it
OpenOutputFails ==
    /\ pc = "L23"
    /\ Raise("open")
    /\ UNCHANGED << idx, report, stamp, console, infile >>
    /\ UNCHANGED << env, counters, locals >>

\* line 24
WriteTitle ==
    /\ pc = "L24"
    /\ Write(TitleText)
    /\ pc' = "L25"
    /\ UNCHANGED << idx, console, outfile, infile, exc, excAt >>
    /\ UNCHANGED << env, counters, locals >>

\* line 25: next entry of the list, or the end of the with-block
ForNext ==
    /\ pc = "L25"
    /\ IF idx < Len(files_to_collect)
       THEN idx' = Following(idx) /\ pc' = "L27"
       ELSE idx' = idx /\ pc' = "X23"
    /\ UNCHANGED << report, stamp, console, outfile, infile, exc, excAt >>
    /\ UNCHANGED << env, counters, locals >>

\* lines 26-27
ExistsCheck ==
    /\ pc = "L27"
    /\ existsChecks' = Bump(existsChecks, idx)
    /\ pc' = IF Exists(fs[idx]) THEN "L28" ELSE "L38"
    /\ UNCHANGED << idx, report, stamp, console, outfile, infile, exc, excAt,
                    outOpens, openAttempts, readAttempts >>
    /\ UNCHANGED << env, locals >>

\* line 28
WriteFoundHeader ==
    /\ pc = "L28"
    /\ Write(FoundHeader(rel))
    /\ pc' = "L30"
    /\ UNCHANGED << idx, console, outfile, infile, exc, excAt >>
    /\ UNCHANGED << env, counters, locals >>

\* (variant: no handler around the open, its failure ends the run)
OpenInput_Uncaught ==
    /\ pc = "L30"
    /\ openAttempts' = Bump(openAttempts, idx)
    /\ IF fs[idx] \in { "missing", "denied" }
       THEN /\ Raise("read")
            /\ UNCHANGED << e, infile >>
       ELSE /\ e' = e
            /\ infile' = infile \cup { idx }
            /\ pc' = "L31"
            /\ UNCHANGED << outfile, exc, excAt >>
    /\ UNCHANGED << idx, report, stamp, console, content,
                    outOpens, existsChecks, readAttempts >>
    /\ UNCHANGED env

\* line 30: open the input; a failure goes to the except clause of line 33
OpenInput ==
    /\ pc = "L30"
    /\ openAttempts' = Bump(openAttempts, idx)
    /\ IF fs[idx] \in { "missing", "denied" }
       THEN /\ e' = Describe(fs[idx])
            /\ infile' = infile
            /\ pc' = "L34"
       ELSE /\ e' = e
            /\ infile' = infile \cup { idx }
            /\ pc' = "L31"
    /\ UNCHANGED << idx, report, stamp, console, outfile, content, exc, excAt,
                    outOpens, existsChecks, readAttempts >>
    /\ UNCHANGED env

\* (variant: a failed read is tried once more)
ReadInput_Retry ==
    /\ pc = "L31"
    /\ readAttempts' = Bump(readAttempts, idx)
    /\ IF Utf8Valid(RawBytes(idx, fs[idx]))
       THEN /\ content' = Decode(RawBytes(idx, fs[idx]))
            /\ e' = e
            /\ infile' = infile
            /\ pc' = "L32"
       ELSE IF readAttempts[idx] = 0
       THEN /\ UNCHANGED << content, e, infile, pc >>
       ELSE /\ content' = content
            /\ e' = Describe(fs[idx])
            /\ infile' = Closed(infile, idx)
            /\ pc' = "L34"
    /\ UNCHANGED << idx, report, stamp, console, outfile, exc, excAt,
                    outOpens, existsChecks, openAttempts >>
    /\ UNCHANGED env

\* line 31: read and decode; a failure leaves the inner with-block (closing
\* infile) and goes to the except clause of line 33
ReadInput ==
    /\ pc = "L31"
    /\ readAttempts' = Bump(readAttempts, idx)
    /\ IF Utf8Valid(RawBytes(idx, fs[idx]))
       THEN /\ content' = Decode(RawBytes(idx, fs[idx]))
            /\ e' = e
            /\ infile' = infile
            /\ pc' = "L32"
       ELSE /\ content' = content
            /\ e' = Describe(fs[idx])
            /\ infile' = Closed(infile, idx)
            /\ pc' = "L34"
    /\ UNCHANGED << idx, report, stamp, console, outfile, exc, excAt,
                    outOpens, existsChecks, openAttempts >>
    /\ UNCHANGED env

\* line 32: inside the try; when the write raises, the inner with-block is
\* left (closing infile) and the except clause of line 33 catches it
WriteContent ==
    /\ pc = "L32"
    /\ IF fs[idx] = "unwritable"
       THEN /\ e' = Describe(fs[idx])
            /\ infile' = Closed(infile, idx)
            /\ pc' = "L34"
            /\ UNCHANGED << report, stamp >>
       ELSE /\ Write(content)
            /\ e' = e
            /\ infile' = infile
            /\ pc' = "X30"
    /\ UNCHANGED << idx, console, outfile, content, exc, excAt >>
    /\ UNCHANGED << env, counters >>

\* end of the with-block of line 30
CloseInput ==
    /\ pc = "X30"
    /\ infile' = Closed(infile, idx)
    /\ pc' = "L35"
    /\ UNCHANGED << idx, report, stamp, console, outfile, exc, excAt >>
    /\ UNCHANGED << env, counters, locals >>

\* (variant: the loop is left after the error marker)
WriteError_Break ==
    /\ pc = "L34"
    /\ Write(ErrorText(e))
    /\ e' = ""
    /\ pc' = "X23"
    /\ UNCHANGED << idx, console, outfile, infile, content, exc, excAt >>
    /\ UNCHANGED << env, counters >>

\* lines 33-34; e is unbound when the except clause ends
WriteError ==
    /\ pc = "L34"
    /\ Write(ErrorText(e))
    /\ e' = ""
    /\ pc' = "L35"
    /\ UNCHANGED << idx, console, outfile, infile, content, exc, excAt >>
    /\ UNCHANGED << env, counters >>

\* line 35
WriteSeparator ==
    /\ pc = "L35"
    /\ Write(Separator)
    /\ pc' = "L36"
    /\ UNCHANGED << idx, console, outfile, infile, exc, excAt >>
    /\ UNCHANGED << env, counters, locals >>

\* (variant: the success notice is printed only when the content was read)
SayAdded_OnlyIfRead ==
    /\ pc = "L36"
    /\ Say(IF fs[idx] \in { "text", "unwritable" }
           THEN AddedLine(rel) ELSE SkippedLine(rel))
    /\ pc' = "L25"
    /\ UNCHANGED << idx, report, stamp, outfile, infile, exc, excAt >>
    /\ UNCHANGED << env, counters, locals >>

\* line 36
SayAdded ==
    /\ pc = "L36"
    /\ Say(AddedLine(rel))
    /\ pc' = "L25"
    /\ UNCHANGED << idx, report, stamp, outfile, infile, exc, excAt >>
    /\ UNCHANGED << env, counters, locals >>

\* line 38
WriteMissingHeader ==
    /\ pc = "L38"
    /\ Write(MissingHeader(rel))
    /\ pc' = "L39"
    /\ UNCHANGED << idx, console, outfile, infile, exc, excAt >>
    /\ UNCHANGED << env, counters, locals >>

\* line 39
WriteNotFound ==
    /\ pc = "L39"
    /\ Write(NotFoundText)
    /\ pc' = "L40"
    /\ UNCHANGED << idx, console, outfile, infile, exc, excAt >>
    /\ UNCHANGED << env, counters, locals >>

\* line 40
SaySkipped ==
    /\ pc = "L40"
    /\ Say(SkippedLine(rel))
    /\ pc' = "L25"
    /\ UNCHANGED << idx, report, stamp, outfile, infile, exc, excAt >>
    /\ UNCHANGED << env, counters, locals >>

\* end of the with-block of line 23: flush and close
CloseOutput ==
    /\ pc = "X23"
    /\ outfile' = Released(outfile)
    /\ pc' = "L42"
    /\ UNCHANGED << idx, report, stamp, console, infile, exc, excAt >>
    /\ UNCHANGED << env, counters, locals >>

\* line 42
SayComplete ==
    /\ pc = "L42"
    /\ Say(CompleteBanner)
    /\ pc' = "L43"
    /\ UNCHANGED << idx, report, stamp, outfile, infile, exc, excAt >>
    /\ UNCHANGED << env, counters, locals >>

\* line 43
SaySaved ==
    /\ pc = "L43"
    /\ Say(SavedLine)
    /\ pc' = "done"
    /\ UNCHANGED << idx, report, stamp, outfile, infile, exc, excAt >>
    /\ UNCHANGED << env, counters, locals >>

(* ------------------- failures nothing in aa.py catches ------------------ *)

\* the outfile.write calls that are not inside the try of lines 29-32
WriteSites == { "L24", "L28", "L34", "L35", "L38", "L39" }

SaySites == { "L22", "L36", "L40", "L42", "L43" }

\* an outfile.write outside the try raises (device full, handle revoked)
WriteFails ==
    /\ pc \in WriteSites
    /\ Raise("write")
    /\ UNCHANGED << idx, report, stamp, console, infile >>
    /\ UNCHANGED << env, counters, locals >>

\* the flush of the close at the end of the with-block raises; the handle is
\* released all the same
CloseFails ==
    /\ pc = "X23"
    /\ Raise("close")
    /\ UNCHANGED << idx, report, stamp, console, infile >>
    /\ UNCHANGED << env, counters, locals >>

\* a print raises (stdout closed, or unable to encode the line)
SayFails ==
    /\ pc \in SaySites
    /\ Raise("print")
    /\ UNCHANGED << idx, report, stamp, console, infile >>
    /\ UNCHANGED << env, counters, locals >>

(* ----------------------------- environment ----------------------------- *)

Terminal == { "done", "aborted" }

\* the script is started again: a new process, the same disk
Rerun ==
    /\ pc \in Terminal
    /\ runs < MaxRuns
    /\ runs' = runs + 1
    /\ prevDone' = IF pc = "done" /\ ~fsChanged THEN report ELSE << >>
    /\ fsChanged' = FALSE
    /\ pc' = "L22"
    /\ idx' = 0
    /\ console' = << >>
    /\ outfile' = "unbound"
    /\ infile' = {}
    /\ content' = << >>
    /\ e' = ""
    /\ exc' = ""
    /\ excAt' = ""
    /\ outOpens' = 0
    /\ existsChecks' = Zero
    /\ openAttempts' = Zero
    /\ readAttempts' = Zero
    /\ UNCHANGED << fs, report, stamp >>

\* between two runs, one listed path changes on disk
FsChange ==
    /\ pc \in Terminal
    /\ runs < MaxRuns
    /\ ~fsChanged
    /\ \E i \in Paths, kind \in FileKinds :
          /\ kind # fs[i]
          /\ fs' = [ fs EXCEPT ![i] = kind ]
    /\ fsChanged' = TRUE
    /\ UNCHANGED << pc, idx, report, stamp, console, outfile, infile, exc,
                    excAt, runs, prevDone >>
    /\ UNCHANGED << counters, locals >>

(* --------------------------- specifications ---------------------------- *)

Pass ==
    \/ SayStart
    \/ OpenOutput
    \/ OpenOutputFails
    \/ WriteTitle
    \/ ForNext
    \/ ExistsCheck
    \/ WriteFoundHeader
    \/ OpenInput
    \/ ReadInput
    \/ WriteContent
    \/ CloseInput
    \/ WriteError
    \/ WriteSeparator
    \/ SayAdded
    \/ WriteMissingHeader
    \/ WriteNotFound
    \/ SaySkipped
    \/ CloseOutput
    \/ SayComplete
    \/ SaySaved
    \/ WriteFails
    \/ CloseFails
    \/ SayFails

Next == Pass \/ Rerun \/ FsChange

Spec == Init /\ [][Next]_vars

\* one run on its own; the interpreter always takes the next step
OneRun == Init /\ [][Pass]_vars /\ WF_vars(Pass)

TypeOK ==
    /\ idx \in 0..Len(files_to_collect)
    /\ outfile \in { "unbound", "open", "closed" }
    /\ infile \subseteq Paths
    /\ Len(stamp) = Len(report)
    /\ runs \in 1..MaxRuns

(* ------------------- reading the report and the run -------------------- *)

HeaderLines == { HeaderLine(AllFiles[i]) : i \in 1..Len(AllFiles) }

\* the header lines of the report, in the order they stand in the file
Headers == SelectSeq(report, LAMBDA tok : tok \in HeaderLines)

HeaderPos ==
    SelectSeq([ k \in 1..Len(report) |-> k ],
              LAMBDA k : report[k] \in HeaderLines)

\* the n-th section: from its header line up to the newline that the next
\* section's header write starts with, or to the end of the report
Section(n) ==
    SubSeq(report, HeaderPos[n],
           IF n < Len(HeaderPos) THEN HeaderPos[n + 1] - 2 ELSE Len(report))

\* the line the run is at; for an aborted run, the line that raised
at == IF pc = "aborted" THEN excAt ELSE pc

BeforeLoop == { "L22", "L23", "L24" }

AfterLoop == { "X23", "L42", "L43", "done" }

\* lines of an iteration that come before its header write
BeforeHeader == { "L27", "L28", "L38" }

\* lines of an iteration at which its section is not yet fully written
InSection == BeforeHeader \cup { "L30", "L31", "L32", "X30", "L34", "L35", "L39" }

\* number of entries whose header has been written by this run
HeadersDue ==
    IF at \in BeforeLoop THEN 0
    ELSE IF at \in BeforeHeader THEN idx - 1 ELSE idx

\* number of entries whose section has been written in full by this run
SectionsDue ==
    IF at \in BeforeLoop THEN 0
    ELSE IF at \in InSection THEN idx - 1 ELSE idx

\* number of entries whose progress line has been printed by this run
LinesDue ==
    IF at \in BeforeLoop THEN 0
    ELSE IF at \in InSection \cup { "L36", "L40" } THEN idx - 1 ELSE idx

\* this run has opened output_file, and fs is still what the run saw
Opened == outfile # "unbound" /\ ~fsChanged

\* what the run meets at the i-th path
Missing(i) == fs[i] = "missing"

\* the path exists, opens and reads
Readable(i) == fs[i] \in { "text", "unwritable" }

\* the path exists but the open or the read raises
Unreadable(i) == fs[i] \in { "denied", "undecodable" }

N == Len(files_to_collect)

(* ------------------------------ claims --------------------------------- *)

\* C1: once a run has opened the output file, the header lines in the report
\* are exactly the headers of the entries the loop has reached, one each and
\* in list order; when the pass is over there is one per list entry.
C1_OneHeaderPerEntryInOrder ==
    Opened =>
        /\ Headers = [ k \in 1..HeadersDue |-> HeaderLine(files_to_collect[k]) ]
        /\ at \in AfterLoop =>
              Headers = [ k \in 1..N |-> HeaderLine(files_to_collect[k]) ]

\* a completed run over a list with a missing, an unreadable and a readable path
C1_Witness ==
    /\ pc = "done" /\ Opened /\ Len(Headers) = N
    /\ \E a, b, c \in Paths :
          /\ Missing(a)
          /\ Unreadable(b)
          /\ Readable(c) /\ fs[c] = "text"

\* C2: the section of every listed path that exists and whose read succeeds
\* is its header line, a blank line, exactly the decoded contents of the
\* file, and a newline; no marker stands in it.
C2_ReadableSectionIsContent ==
    Opened =>
        \A n \in 1..SectionsDue :
            Readable(n) =>
                Section(n) = << HeaderLine(files_to_collect[n]), NL, NL >>
                                 \o Decode(RawBytes(n, fs[n])) \o << NL >>

\* C3: the section of every listed path whose existence check fails is its
\* header line and the marker [FILE NOT FOUND]; the path is never opened or
\* read; and the marker stands in no section of a path that exists but
\* cannot be read.
C3_MissingSectionIsNotFound ==
    Opened =>
        /\ \A n \in Paths :
              Missing(n) =>
                  /\ openAttempts[n] = 0
                  /\ readAttempts[n] = 0
                  /\ n \notin infile
        /\ \A n \in 1..SectionsDue :
              /\ Missing(n) =>
                    Section(n) = << HeaderLine(files_to_collect[n]), NL,
                                    "[FILE NOT FOUND]", NL, NL >>
              /\ Unreadable(n) =>
                    \A k \in 1..Len(Section(n)) :
                        Section(n)[k] # "[FILE NOT FOUND]"

\* a finished section of a missing path next to one of an unreadable path
C3_Witness ==
    /\ Opened
    /\ \E n, m \in 1..SectionsDue :
          /\ Missing(n) /\ existsChecks[n] = 1
          /\ Unreadable(m)

\* C4: when a listed path exists but its open or read fails, the failure
\* does not end the run, the section is the header and the marker
\* [ERROR READING FILE]: <description> with nothing of any file's content,
\* and the loop goes on to the next entry of the list.
C4_ReadFailureIsRecorded ==
    Opened =>
        /\ at \notin { "L30", "L31" } \/ pc # "aborted"
        /\ \A n \in 1..SectionsDue :
              Unreadable(n) =>
                  /\ Section(n) = << HeaderLine(files_to_collect[n]), NL, NL,
                                     ErrorLine(Describe(fs[n])), NL, NL >>
                  /\ (pc = "done" /\ n < N) =>
                        /\ existsChecks[n + 1] = 1
                        /\ Len(Headers) > n

\* a completed run in which an open failed and a read failed, each followed
\* by a further entry
C4_Witness ==
    /\ pc = "done" /\ Opened
    /\ \E n, m \in 1..(N - 1) :
          /\ fs[n] = "denied" /\ openAttempts[n] = 1 /\ readAttempts[n] = 0
          /\ fs[m] = "undecodable" /\ readAttempts[m] = 1

\* C5 as stated: a run is only ever aborted by the failure to open the
\* output file.
C5_OnlyOpenIsFatal ==
    pc = "aborted" => exc = "open"

\* C5 as amended: the failure to open the output file ends the run with no
\* path examined, nothing written and no completion banner; a missing path
\* and a failed open or read of an input file never end the run; the other
\* uncaught failures are a write to the output file outside the try block,
\* the close of the output file, and a console print.
C5_FatalFailures ==
    /\ exc = "open" =>
          /\ pc = "aborted" /\ excAt = "L23"
          /\ outfile = "unbound" /\ outOpens = 0
          /\ idx = 0 /\ existsChecks = Zero /\ openAttempts = Zero
          /\ \A k \in 1..Len(stamp) : stamp[k] # runs
          /\ \A k \in 1..Len(console) : console[k] # CompleteBanner
    /\ pc = "aborted" =>
          /\ excAt \notin { "L25", "L27", "L30", "L31", "L32", "X30" }
          /\ \/ exc = "open" /\ excAt = "L23"
             \/ exc = "write" /\ excAt \in WriteSites
             \/ exc = "close" /\ excAt = "X23"
             \/ exc = "print" /\ excAt \in SaySites

\* a run that could not open the output file, over a report left on disk
C5_Witness ==
    /\ pc = "aborted" /\ exc = "open" /\ Len(report) > 0

\* C6: once a run has opened the output file every piece of the report was
\* written by that run; and a run that completes over the filesystem the
\* previous completed run saw leaves the report that run left.
C6_OverwriteNotAppend ==
    /\ outfile # "unbound" => \A k \in 1..Len(stamp) : stamp[k] = runs
    /\ (pc = "done" /\ prevDone # << >>) => report = prevDone

\* a second run completed over an unchanged filesystem
C6_Witness ==
    /\ runs >= 2 /\ pc = "done" /\ prevDone # << >>
    /\ Len(Headers) = N
    /\ \E n \in Paths : Readable(n)

\* C7: the run opens the output file once; the report only changes through
\* the open handle; the handle is closed whenever the with-block has been
\* left, by its end or by an uncaught failure; an input handle is open only
\* between lines 31 and the end of its with-block, for the current path.
C7_HandleState ==
    /\ outOpens <= 1
    /\ outfile # "unbound" <=> outOpens = 1
    /\ outfile = "open" <=> (pc \notin Terminal \cup { "L42", "L43" } /\ outOpens = 1)
    /\ Cardinality(infile) <= 1
    /\ infile # {} => (infile = { idx } /\ pc \in { "L31", "L32", "X30" })
    /\ pc \in { "L31", "L32", "X30" } => infile = { idx }

C7_HandleDiscipline ==
    /\ []C7_HandleState
    /\ [][ /\ report' # report => outfile' = "open"
           /\ outfile = "closed" => (outfile' = "closed" \/ pc' = "L22")
           /\ idx' # idx => infile = {} ]_vars

\* a run aborted inside the pass after an input file was opened and its read
\* failed: both handles are released
C7_Witness ==
    /\ pc = "aborted" /\ exc = "write" /\ excAt \in { "L34", "L35" }
    /\ outfile = "closed" /\ infile = {}
    /\ readAttempts[idx] = 1 /\ fs[idx] = "undecodable" /\ ~fsChanged

\* C8: the console of a run that opened the output file is the start
\* banner, then one progress line per entry the loop has finished, in list
\* order, Added exactly for the paths that exist (readable or not) and
\* Skipped exactly for those that do not, then the completion banner and
\* the output path once the pass is over.
C8_ConsoleLines ==
    Opened =>
        console =
            << StartBanner >>
            \o [ k \in 1..LinesDue |->
                   IF ~Missing(k) THEN AddedLine(files_to_collect[k])
                                    ELSE SkippedLine(files_to_collect[k]) ]
            \o (IF at = "done" THEN << CompleteBanner, SavedLine >>
                ELSE IF at = "L43" THEN << CompleteBanner >> ELSE << >>)

\* a completed run with an unreadable path (Added, error marker in the
\* report) and a missing one
C8_Witness ==
    /\ pc = "done" /\ Opened /\ Len(console) = N + 3
    /\ \E n, m \in Paths :
          /\ Unreadable(n)
          /\ Section(n)[4] = ErrorLine(Describe(fs[n]))
          /\ console[n + 1] = AddedLine(files_to_collect[n])
          /\ Missing(m)

\* C9: every entry the loop has reached had one existence check and at most
\* one open and one read, the others none; the loop never goes back; and
\* the run ends, at the completion banner or by an abort.
C9_CountsOK ==
    \A n \in Paths :
        /\ existsChecks[n] = (IF n < idx \/ (n = idx /\ at # "L27") THEN 1 ELSE 0)
        /\ openAttempts[n] <= 1
        /\ readAttempts[n] <= openAttempts[n]
        /\ pc = "done" => existsChecks[n] = 1

C9_SinglePass ==
    /\ []C9_CountsOK
    /\ [][ idx' >= idx ]_vars
    /\ <>(pc \in Terminal)

\* a run that reached the completion banner after a read failed
C9_Witness ==
    /\ pc = "done"
    /\ \E n \in Paths : fs[n] = "undecodable" /\ readAttempts[n] = 1

\* C10: when the completion banner is on the console the output handle is
\* closed and the report holds the title and the section of every entry; a
\* run aborted before line 42 has not printed it.
C10_BannerAfterClose ==
    /\ (\E k \in 1..Len(console) : console[k] = CompleteBanner) =>
          /\ outfile = "closed"
          /\ at \in { "L43", "done" }
          /\ SubSeq(report, 1, Len(TitleText)) = TitleText
          /\ Headers = [ k \in 1..N |-> HeaderLine(files_to_collect[k]) ]
          /\ SectionsDue = N
    /\ (pc = "aborted" /\ excAt \notin { "L43" }) =>
          \A k \in 1..Len(console) : console[k] # CompleteBanner

\* the completion banner has just been printed
C10_Witness ==
    /\ pc = "L43" /\ console[Len(console)] = CompleteBanner
    /\ outfile = "closed" /\ Len(Headers) = N

====
